---- MODULE Spec2Model ----
(***************************************************************************)
(* Model of the Atem connection object (src/src/atem.ts): the sent queue   *)
(* that correlates outgoing commands with acknowledgments, the socket      *)
(* event handlers, and the application of received notifier commands       *)
(* (KeDV, KeBP) to the mirrored state tree (Spec, LiveSpec); the public    *)
(* setters and the command each one builds (ApiSpec); uploads through the  *)
(* data transfer manager (TransferSpec); and the binary layout of the      *)
(* upstream keyer DVE commands CKDV / KeDV (CodecSpec).                    *)
(***************************************************************************)
EXTENDS Integers, Sequences, FiniteSets, TLC

(* ------------------------------ bounds -------------------------------- *)

\* number of operations explored: calls of sendCommand, connect and disconnect
\* plus received commands
MaxOps == 3

\* sendCommand calls are operations, so there are at most MaxOps of them
MaxSends == MaxOps

\* command objects a caller may hand to sendCommand (the same object may be
\* handed over more than once)
Commands == {"cmdA", "cmdB"}

\* tracking identifiers the socket may name in an event: 0 and MaxSends + 1
\* are never issued
TrackingIds == 0 .. (MaxSends + 1)

\* the JavaScript value undefined, where an object, a path or a command may stand
\* uploads requested from the data transfer manager
MaxUploads == 2
TransferIds == 1 .. MaxUploads

\* a command object allocated with `new` by the n-th call that sends one: a
\* different object for every call, and none of the caller's own
NewCommand(n) == "new" \o ToString(n)
Objects == Commands \cup {NewCommand(n) : n \in 1 .. MaxSends}

Undefined == [type |-> "undefined"]
NoCommand == "undefined"
NoValue == "none"
NoPromise == 0

\* mix effects and upstream keyers a received command may address, and the
\* property records it may carry
MixEffects == {0, 1}
Keyers == {0, 1}
DVESettings == {[sizeX |-> 1000, rotation |-> 0, borderEnabled |-> FALSE],
                [sizeX |-> 500, rotation |-> 90, borderEnabled |-> TRUE]}
KeyProperties == {[upstreamKeyerId |-> k, fillSource |-> s, flyEnabled |-> f] :
                      k \in Keyers, s \in {1, 2}, f \in {FALSE}}

\* decoded notifier commands: KeDV (MixEffectKeyDVEUpdateCommand), KeBP
\* (MixEffectKeyPropertiesGetCommand), and a received command that defines
\* no applyToState
KeDVCommands == {[rawName |-> "KeDV", mixEffect |-> m, upstreamKeyerId |-> k,
                  properties |-> p] :
                     m \in MixEffects, k \in Keyers, p \in DVESettings}
KeBPCommands == {[rawName |-> "KeBP", mixEffect |-> m, properties |-> p] :
                     m \in MixEffects, p \in KeyProperties}
OtherCommands == {[rawName |-> "other"]}
ReceivedCommands == KeDVCommands \cup KeBPCommands \cup OtherCommands

\* Enums.ProtocolVersion, and the value of state.info.apiVersion before the
\* device has reported one (it compares below every version)
ProtocolVersion == [V7_2 |-> 131094, V8_0 |-> 131100, V8_0_1 |-> 131101]
ProtocolVersions == {ProtocolVersion.V7_2, ProtocolVersion.V8_0,
                     ProtocolVersion.V8_0_1}
NoVersion == 0

\* the version notifier ('_ver') the device sends at connect time
VersionCommands == {[rawName |-> "_ver", apiVersion |-> v] :
                        v \in ProtocolVersions}

\* the notifiers of the transfer protocol that Atem._mutateState hands to
\* the data transfer manager: lock obtained, transfer complete
DataTransferCommands == {[rawName |-> "LKOB"], [rawName |-> "FTDC"]}

(* ------------------------------ state --------------------------------- *)

VARIABLES
    localPacketId,  \* the socket's packet id counter, read by nextPacketId
    sentQueue,      \* Atem._sentQueue: tracking id -> command object
    continuation,   \* command.resolve / command.reject: the promise they settle
    promises,       \* the promises returned by sendCommand, in call order
    invoked,        \* per tracking id: continuations invoked by ack / timeout
    socketState,    \* the session engine's lifecycle state
    emitted,        \* the events the Atem object emitted in the last step
    state,          \* Atem.state: the mirrored state tree
    thrown,         \* whether the last handler ended by throwing
    opCount,        \* operations so far
    lastCall,       \* the latest setter call: its arguments, the command built
    transfers,      \* the data transfer manager: its queue and the outcomes
    codec           \* the KeDV / CKDV codec: the value encoded or decoded

vars == <<localPacketId, sentQueue, continuation, promises, invoked,
          socketState, emitted, state, thrown, opCount, lastCall, transfers,
          codec>>

Event(name, arg) == [name |-> name, arg |-> arg]

(* --------------------------- state synchronizer ----------------------- *)

\* a mix effect node as state.video.getMe creates it: no keyer seen yet
NewMixEffect == [type |-> "MixEffect", upstreamKeyers |-> [k \in Keyers |-> Undefined]]

\* a keyer node as MixEffect.getUpstreamKeyer creates it: no field set yet
NewUpstreamKeyer == [type |-> "UpstreamKeyer"]

\* state.video.getMe(index): the node is created when it has not been seen
getMe(st, index) ==
    IF st.video.ME[index] = Undefined
    THEN [st EXCEPT !.video.ME[index] = NewMixEffect]
    ELSE st

\* mixEffect.getUpstreamKeyer(index), on the tree: created when not seen
getUpstreamKeyer(st, me, index) ==
    IF st.video.ME[me].upstreamKeyers[index] = Undefined
    THEN [st EXCEPT !.video.ME[me].upstreamKeyers[index] = NewUpstreamKeyer]
    ELSE st

\* Object.assign(target, source): every own property of source overwrites
\* the property of that name in target
ObjectAssign(target, source) ==
    [f \in DOMAIN target \cup DOMAIN source |->
        IF f \in DOMAIN source THEN source[f] ELSE target[f]]

Path(me, keyer, leaf) == <<"video", "ME", me, "upstreamKeyers", keyer, leaf>>

\* the values applyToState may return: a path string, an array of them, or
\* undefined
StringValue(path) == [type |-> "string", value |-> path]
ArrayValue(paths) == [type |-> "array", value |-> paths]

Returned(st, value) == [state |-> st, threw |-> FALSE, value |-> value]

Threw(st) == [state |-> st, threw |-> TRUE, value |-> Undefined]

\* KeDV applyToState that reports a path only when the settings differ from
\* the ones already in the tree
KeDVApplyToState_ReportsOnlyChanges(command, st) ==
    LET withMe    == getMe(st, command.mixEffect)
        withKeyer == getUpstreamKeyer(withMe, command.mixEffect,
                                      command.upstreamKeyerId)
        applied   == [withKeyer EXCEPT
                        !.video.ME[command.mixEffect]
                            .upstreamKeyers[command.upstreamKeyerId]
                            = ObjectAssign(@, [dveSettings |-> command.properties])]
    IN  IF applied = st
        THEN Returned(applied, ArrayValue(<<>>))
        ELSE Returned(applied,
                      StringValue(Path(command.mixEffect, command.upstreamKeyerId,
                                       "dveSettings")))

\* KeDV applyToState that ignores upstreamKeyerId and writes the settings
\* into every keyer of the mix effect that has been seen
KeDVApplyToState_EveryKeyer(command, st) ==
    LET withMe    == getMe(st, command.mixEffect)
        withKeyer == getUpstreamKeyer(withMe, command.mixEffect,
                                      command.upstreamKeyerId)
    IN  Returned([withKeyer EXCEPT
                    !.video.ME[command.mixEffect].upstreamKeyers =
                        [k \in Keyers |->
                            IF @[k] = Undefined
                            THEN @[k]
                            ELSE ObjectAssign(@[k],
                                     [dveSettings |-> command.properties])]],
                 StringValue(Path(command.mixEffect, command.upstreamKeyerId,
                                  "dveSettings")))

\* MixEffectKeyDVEUpdateCommand.applyToState
KeDVApplyToState(command, st) ==
    LET withMe    == getMe(st, command.mixEffect)
        withKeyer == getUpstreamKeyer(withMe, command.mixEffect,
                                      command.upstreamKeyerId)
    IN  Returned([withKeyer EXCEPT
                    !.video.ME[command.mixEffect]
                        .upstreamKeyers[command.upstreamKeyerId]
                        = ObjectAssign(@, [dveSettings |-> command.properties])],
                 StringValue(Path(command.mixEffect, command.upstreamKeyerId,
                                  "dveSettings")))

\* MixEffectKeyPropertiesGetCommand.applyToState: the keyer is read from
\* mixEffect.upstreamKeyers directly; Object.assign throws a TypeError on an
\* undefined target; the method returns nothing
KeBPApplyToState(command, st) ==
    LET withMe == getMe(st, command.mixEffect)
        keyer  == withMe.video.ME[command.mixEffect]
                      .upstreamKeyers[command.properties.upstreamKeyerId]
    IN  IF keyer = Undefined
        THEN Threw(withMe)
        ELSE Returned([withMe EXCEPT
                         !.video.ME[command.mixEffect]
                             .upstreamKeyers[command.properties.upstreamKeyerId]
                             = ObjectAssign(keyer, command.properties)],
                      Undefined)

\* the version notifier's applyToState: state.info.apiVersion = the version
VersionApplyToState(command, st) ==
    Returned([st EXCEPT !.info.apiVersion = command.apiVersion],
             StringValue("info"))

\* typeof command.applyToState === 'function'
HasApplyToState(command) == command.rawName \in {"KeDV", "KeBP", "_ver"}

applyToState(command, st) ==
    IF command.rawName = "KeDV"
    THEN KeDVApplyToState(command, st)
    ELSE IF command.rawName = "KeBP"
    THEN KeBPApplyToState(command, st)
    ELSE VersionApplyToState(command, st)

\* the stateChanged events of Atem._mutateState: a result that is no array
\* is wrapped into one, and one event is emitted per element
ChangePaths(result) ==
    IF result.value.type = "array" THEN result.value.value ELSE <<result.value>>

StateChangedEvents(result) ==
    [i \in 1 .. Len(ChangePaths(result)) |->
        Event("stateChanged", ChangePaths(result)[i])]

\* Atem._mutateState: what the tree becomes, what is emitted, whether it threw
_mutateState(command, st) ==
    IF HasApplyToState(command)
    THEN LET result == applyToState(command, st)
         IN  IF result.threw
             THEN [state |-> result.state, emitted |-> <<>>, thrown |-> TRUE]
             ELSE [state |-> result.state,
                   emitted |-> StateChangedEvents(result), thrown |-> FALSE]
    ELSE [state |-> st, emitted |-> <<>>, thrown |-> FALSE]

\* the trees the listeners find in Atem.state, one per emitted event in
\* emission order, had 'stateChanged' been emitted before applyToState ran
ObservedTrees_EmitBeforeApply(command, st) ==
    <<st>> \o [i \in 1 .. Len(_mutateState(command, st).emitted) |-> st]

\* the trees the listeners find in Atem.state, one per emitted event in
\* emission order: 'receivedCommand' is emitted before _mutateState runs,
\* every 'stateChanged' after applyToState has returned
ObservedTrees(command, st) ==
    <<st>> \o [i \in 1 .. Len(_mutateState(command, st).emitted) |->
                  _mutateState(command, st).state]

(* ------------------------- acknowledgment tracker --------------------- *)

\* Settling a promise: the first resolve / reject wins, later ones are no-ops
\* (the semantics of the Promise the executor's resolve and reject belong to).
Settle(ps, p, status, value) ==
    IF p = NoPromise \/ ps[p].status # "pending"
    THEN ps
    ELSE [ps EXCEPT ![p].status = status, ![p].value = value]

\* AtemSocket.nextPacketId: identifiers are handed out monotonically.
nextPacketId == localPacketId + 1

\* sendCommand keyed by the number of waiting entries instead of the
\* socket's next packet id
sendCommand_KeyedByQueueLength(command) ==
    LET id == Cardinality({t \in TrackingIds : sentQueue[t] # NoCommand}) + 1
    IN  /\ opCount < MaxOps
        /\ opCount' = opCount + 1
        /\ localPacketId' = nextPacketId
        /\ sentQueue' = [sentQueue EXCEPT ![id] = command]
        /\ continuation' = [continuation EXCEPT ![command] =
                                [resolve |-> Len(promises) + 1,
                                 reject  |-> Len(promises) + 1]]
        /\ promises' = Append(promises,
                              [trackingId |-> id,
                               command    |-> command,
                               status     |-> "pending",
                               value      |-> NoValue,
                               sendFailed |-> FALSE])
        /\ emitted' = <<>>
        /\ thrown' = FALSE
        /\ UNCHANGED <<invoked, socketState, state>>

\* sendCommand that also writes the requested change into the state tree
sendCommand_Speculative(command) ==
    /\ opCount < MaxOps
    /\ opCount' = opCount + 1
    /\ localPacketId' = nextPacketId
    /\ sentQueue' = [sentQueue EXCEPT ![nextPacketId] = command]
    /\ continuation' = [continuation EXCEPT ![command] =
                            [resolve |-> Len(promises) + 1,
                             reject  |-> Len(promises) + 1]]
    /\ promises' = Append(promises,
                          [trackingId |-> nextPacketId,
                           command    |-> command,
                           status     |-> "pending",
                           value      |-> NoValue,
                           sendFailed |-> FALSE])
    /\ emitted' = <<>>
    /\ thrown' = FALSE
    /\ \E requested \in KeDVCommands :
          state' = KeDVApplyToState(requested, state).state
    /\ UNCHANGED <<invoked, socketState>>

sendCommand(command) ==
    /\ opCount < MaxOps
    /\ opCount' = opCount + 1
    /\ localPacketId' = nextPacketId
    /\ sentQueue' = [sentQueue EXCEPT ![nextPacketId] = command]
    /\ continuation' = [continuation EXCEPT ![command] =
                            [resolve |-> Len(promises) + 1,
                             reject  |-> Len(promises) + 1]]
    /\ promises' = Append(promises,
                          [trackingId |-> nextPacketId,
                           command    |-> command,
                           status     |-> "pending",
                           value      |-> NoValue,
                           sendFailed |-> FALSE])
    /\ emitted' = <<>>
    /\ thrown' = FALSE
    /\ UNCHANGED <<invoked, socketState, state>>

\* the promise socket._sendCommand returned rejects: .catch(reject) runs the
\* reject of the promise created by that very sendCommand call
SendCommandFailed(p) ==
    /\ p \in 1 .. Len(promises)
    /\ ~promises[p].sendFailed
    /\ promises' = [Settle(promises, p, "rejected", "sendError")
                        EXCEPT ![p].sendFailed = TRUE]
    /\ emitted' = <<>>
    /\ thrown' = FALSE
    /\ UNCHANGED <<localPacketId, sentQueue, continuation, invoked, socketState,
                   state, opCount>>
    /\ UNCHANGED <<lastCall, transfers, codec>>

\* _resolveCommand without its delete: the entry stays in the sent queue
resolveCommand_KeepsEntry(trackingId) ==
    IF sentQueue[trackingId] # NoCommand
    THEN /\ promises' = Settle(promises,
                               continuation[sentQueue[trackingId]].resolve,
                               "resolved", sentQueue[trackingId])
         /\ invoked' = [invoked EXCEPT ![trackingId] = @ + 1]
         /\ sentQueue' = sentQueue
    ELSE UNCHANGED <<promises, invoked, sentQueue>>

_resolveCommand(trackingId) ==
    IF sentQueue[trackingId] # NoCommand
    THEN /\ promises' = Settle(promises,
                               continuation[sentQueue[trackingId]].resolve,
                               "resolved", sentQueue[trackingId])
         /\ invoked' = [invoked EXCEPT ![trackingId] = @ + 1]
         /\ sentQueue' = [sentQueue EXCEPT ![trackingId] = NoCommand]
    ELSE UNCHANGED <<promises, invoked, sentQueue>>

_rejectCommand(trackingId) ==
    IF sentQueue[trackingId] # NoCommand
    THEN /\ promises' = Settle(promises,
                               continuation[sentQueue[trackingId]].reject,
                               "rejected", sentQueue[trackingId])
         /\ invoked' = [invoked EXCEPT ![trackingId] = @ + 1]
         /\ sentQueue' = [sentQueue EXCEPT ![trackingId] = NoCommand]
    ELSE UNCHANGED <<promises, invoked, sentQueue>>

\* socket.on(CommandAcknowledged, ({ trackingId }) => this._resolveCommand(trackingId))
CommandAcknowledged(trackingId) ==
    /\ _resolveCommand(trackingId)
    /\ emitted' = <<>>
    /\ thrown' = FALSE
    /\ UNCHANGED <<localPacketId, continuation, socketState, state, opCount>>
    /\ UNCHANGED <<lastCall, transfers, codec>>

\* socket.on(CommandTimeout, ({ trackingId }) => this._rejectCommand(trackingId))
CommandTimeout(trackingId) ==
    /\ _rejectCommand(trackingId)
    /\ emitted' = <<>>
    /\ thrown' = FALSE
    /\ UNCHANGED <<localPacketId, continuation, socketState, state, opCount>>
    /\ UNCHANGED <<lastCall, transfers, codec>>

\* Atem.sendCommand called with a command object of the caller's own
SendOwnCommand(command) ==
    /\ sendCommand(command)
    /\ UNCHANGED <<lastCall, transfers, codec>>

(* ----------------------------- public setters ------------------------- *)

\* the setters that take an optional mix effect index, with the class of
\* the command each one builds
MixEffectSetters ==
    [changeProgramInput           |-> "ProgramInputCommand",
     changePreviewInput           |-> "PreviewInputCommand",
     cut                          |-> "CutCommand",
     autoTransition               |-> "AutoTransitionCommand",
     fadeToBlack                  |-> "FadeToBlackAutoCommand",
     setFadeToBlackRate           |-> "FadeToBlackRateCommand",
     setDipTransitionSettings     |-> "TransitionDipCommand",
     setDVETransitionSettings     |-> "TransitionDVECommand",
     setMixTransitionSettings     |-> "TransitionMixCommand",
     setTransitionPosition        |-> "TransitionPositionCommand",
     previewTransition            |-> "PreviewTransitionCommand",
     setTransitionStyle           |-> "TransitionPropertiesCommand",
     setStingerTransitionSettings |-> "TransitionStingerCommand",
     setWipeTransitionSettings    |-> "TransitionWipeCommand"]

\* the upstream keyer setters: optional mix effect index and keyer index
UpstreamKeyerSetters ==
    [setUpstreamKeyerChromaSettings  |-> "MixEffectKeyChromaCommand",
     setUpstreamKeyerCutSource       |-> "MixEffectKeyCutSourceSetCommand",
     setUpstreamKeyerFillSource      |-> "MixEffectKeyFillSourceSetCommand",
     setUpstreamKeyerDVESettings     |-> "MixEffectKeyDVECommand",
     setUpstreamKeyerLumaSettings    |-> "MixEffectKeyLumaCommand",
     setUpstreamKeyerMaskSettings    |-> "MixEffectKeyMaskSetCommand",
     setUpstreamKeyerPatternSettings |-> "MixEffectKeyPatternCommand",
     setUpstreamKeyerOnAir           |-> "MixEffectKeyOnAirCommand",
     setUpstreamKeyerType            |-> "MixEffectKeyTypeSetCommand"]

\* the default value each setter declares for its `me` parameter
DefaultMe(setter) == IF setter = "setDVETransitionSettings" THEN 1 ELSE 0

\* the calls a caller may make: a trailing optional argument is passed or
\* left out
MixEffectCalls(setter) ==
    {[setter |-> setter]} \cup {[setter |-> setter, me |-> m] : m \in MixEffects}
UpstreamKeyerCalls(setter) ==
    MixEffectCalls(setter) \cup
        {[setter |-> setter, me |-> m, keyer |-> k] : m \in MixEffects, k \in Keyers}
SuperSourceCalls(setter) ==
    {[setter |-> setter]} \cup {[setter |-> setter, ssrcId |-> i] : i \in {0, 1}}

\* a parameter with a default value: the default stands in for an argument
\* that was left out
Parameter(call, name, default) ==
    IF name \in DOMAIN call THEN call[name] ELSE default

\* what every setter ends with: return this.sendCommand(command)
SendBuilt(call, command) ==
    /\ lastCall' = [type |-> "call", call |-> call,
                    object |-> NewCommand(Len(promises) + 1),
                    command |-> command]
    /\ sendCommand(NewCommand(Len(promises) + 1))
    /\ UNCHANGED <<transfers, codec>>

\* changeProgramInput .. setWipeTransitionSettings: command.mixEffect = me
MixEffectSetter(call) ==
    /\ call.setter \in DOMAIN MixEffectSetters
    /\ SendBuilt(call, [class     |-> MixEffectSetters[call.setter],
                        mixEffect |-> Parameter(call, "me", DefaultMe(call.setter))])

\* setUpstreamKeyer*: command.mixEffect = me; command.upstreamKeyerId = keyer
UpstreamKeyerSetter(call) ==
    /\ call.setter \in DOMAIN UpstreamKeyerSetters
    /\ SendBuilt(call, [class           |-> UpstreamKeyerSetters[call.setter],
                        mixEffect       |-> Parameter(call, "me", 0),
                        upstreamKeyerId |-> Parameter(call, "keyer", 0)])

\* Atem.setSuperSourceProperties
setSuperSourceProperties(call) ==
    IF state.info.apiVersion >= ProtocolVersion.V8_0
    THEN SendBuilt(call, [class  |-> "SuperSourcePropertiesV8Command",
                          ssrcId |-> Parameter(call, "ssrcId", 0)])
    ELSE SendBuilt(call, [class |-> "SuperSourcePropertiesCommand"])

\* Atem.setSuperSourceBorder taking V8_0 itself for a legacy version
setSuperSourceBorder_AboveV8(call) ==
    IF state.info.apiVersion > ProtocolVersion.V8_0
    THEN SendBuilt(call, [class  |-> "SuperSourceBorderCommand",
                          ssrcId |-> Parameter(call, "ssrcId", 0)])
    ELSE SendBuilt(call, [class |-> "SuperSourcePropertiesCommand"])

\* Atem.setSuperSourceBorder
setSuperSourceBorder(call) ==
    IF state.info.apiVersion >= ProtocolVersion.V8_0
    THEN SendBuilt(call, [class  |-> "SuperSourceBorderCommand",
                          ssrcId |-> Parameter(call, "ssrcId", 0)])
    ELSE SendBuilt(call, [class |-> "SuperSourcePropertiesCommand"])

(* ------------------------ data transfer manager ----------------------- *)

\* the manager as constructed: nothing queued, nothing uploaded
NoTransfers ==
    [queue |-> <<>>, uploads |-> 0, outcome |-> [id \in TransferIds |-> "none"]]

\* an upload request: a new transfer session queues behind the others
upload(store) ==
    /\ transfers.uploads < MaxUploads
    /\ transfers' =
          [queue   |-> Append(transfers.queue,
                              [id |-> transfers.uploads + 1, store |-> store,
                               state |-> "Queued", promise |-> NoPromise]),
           uploads |-> transfers.uploads + 1,
           outcome |-> [transfers.outcome EXCEPT ![transfers.uploads + 1] = "pending"]]
    /\ emitted' = <<>>
    /\ thrown' = FALSE
    /\ UNCHANGED <<localPacketId, sentQueue, continuation, promises, invoked,
                   socketState, state, opCount, lastCall, codec>>

\* Atem.uploadStill / uploadClip / uploadAudio: the converted payload is
\* handed to the data transfer manager
uploadStill == upload("still")
uploadClip == upload("clip")
uploadAudio == upload("audio")

\* the manager is idle and a session waits: it becomes the active one and
\* its lock request goes out through the sendCommand callback
TransferStart ==
    /\ transfers.queue # <<>>
    /\ Head(transfers.queue).state = "Queued"
    /\ sendCommand(NewCommand(Len(promises) + 1))
    /\ transfers' = [transfers EXCEPT !.queue[1].state = "Requested",
                                      !.queue[1].promise = Len(promises) + 1]
    /\ UNCHANGED <<lastCall, codec>>

\* the promise of the active session's command was rejected: the session is
\* aborted, the caller is told, and the next queued session may start
TransferCommandFailed ==
    /\ transfers.queue # <<>>
    /\ Head(transfers.queue).promise # NoPromise
    /\ promises[Head(transfers.queue).promise].status = "rejected"
    /\ transfers' = [transfers EXCEPT
                        !.queue = Tail(@),
                        !.outcome[Head(transfers.queue).id] = "aborted"]
    /\ emitted' = <<>>
    /\ thrown' = FALSE
    /\ UNCHANGED <<localPacketId, sentQueue, continuation, promises, invoked,
                   socketState, state, opCount, lastCall, codec>>

\* DataTransferManager.handleCommand: the device granted the lock of the
\* active session, or confirmed that its transfer is complete (the chunk and
\* completion commands in between are left out)
handleCommand(command, tr) ==
    IF tr.queue = <<>>
    THEN tr
    ELSE IF command.rawName = "LKOB" /\ Head(tr.queue).state = "Requested"
    THEN [tr EXCEPT !.queue[1].state = "Locked"]
    ELSE IF command.rawName = "FTDC" /\ Head(tr.queue).state = "Locked"
    THEN [tr EXCEPT !.queue = Tail(@), !.outcome[Head(tr.queue).id] = "done"]
    ELSE tr

(* ------------------------- KeDV / CKDV codec -------------------------- *)

\* an unsigned 32-bit number, kept as its two 16-bit halves
UInt32(hi, lo) == [hi |-> hi, lo |-> lo]
UInt32Less(a, b) == a.hi < b.hi \/ (a.hi = b.hi /\ a.lo < b.lo)

\* Buffer.alloc(size): size zero bytes
alloc(size) == [i \in 0 .. size - 1 |-> 0]

\* Buffer write methods, big-endian, negative numbers in two's complement
writeUInt8(buffer, value, offset) == [buffer EXCEPT ![offset] = value]
writeUInt16BE(buffer, value, offset) ==
    [buffer EXCEPT ![offset] = value \div 256, ![offset + 1] = value % 256]
writeUInt32BE(buffer, value, offset) ==
    writeUInt16BE(writeUInt16BE(buffer, value.hi, offset), value.lo, offset + 2)
writeInt32BE(buffer, value, offset) ==
    [buffer EXCEPT ![offset]     = (value \div 16777216) % 256,
                   ![offset + 1] = (value \div 65536) % 256,
                   ![offset + 2] = (value \div 256) % 256,
                   ![offset + 3] = value % 256]

\* Buffer read methods
readUInt8(buffer, offset) == buffer[offset]
readInt8(buffer, offset) ==
    IF buffer[offset] >= 128 THEN buffer[offset] - 256 ELSE buffer[offset]
readUInt16BE(buffer, offset) == buffer[offset] * 256 + buffer[offset + 1]
readUInt32BE(buffer, offset) ==
    UInt32(readUInt16BE(buffer, offset), readUInt16BE(buffer, offset + 2))
readInt32BE(buffer, offset) ==
    readInt8(buffer, offset) * 16777216 + buffer[offset + 1] * 65536
        + buffer[offset + 2] * 256 + buffer[offset + 3]

\* Util.parseNumberBetween: a number outside [min, max] becomes the nearest
\* bound; the second form is the one for unsigned 32-bit numbers
parseNumberBetween(num, min, max) ==
    IF num < min THEN min ELSE IF num > max THEN max ELSE num
parseNumberBetweenUInt32(num, min, max) ==
    IF UInt32Less(num, min) THEN min ELSE IF UInt32Less(max, num) THEN max ELSE num

\* Enums.BorderBevel (None, InOut, In, Out) and Util.parseEnum: the value is
\* validated against the closed set of the enum's values
BorderBevel == {0, 1, 2, 3}
parseEnum(value, enum) == CHOOSE e \in enum : e = value

\* MixEffectKeyDVECommand.serialize with the rate written one byte too far
serialize_RateAt61(command) ==
    LET b0  == alloc(64)
        b1  == writeUInt32BE(b0, command.flag, 0)
        b2  == writeUInt8(b1, command.mixEffect, 4)
        b3  == writeUInt8(b2, command.upstreamKeyerId, 5)
        b4  == writeUInt32BE(b3, command.properties.sizeX, 8)
        b5  == writeUInt32BE(b4, command.properties.sizeY, 12)
        b6  == writeInt32BE(b5, command.properties.positionX, 16)
        b7  == writeInt32BE(b6, command.properties.positionY, 20)
        b8  == writeInt32BE(b7, command.properties.rotation, 24)
        b9  == [b8 EXCEPT ![28] = IF command.properties.borderEnabled THEN 1 ELSE 0]
        b10 == [b9 EXCEPT ![29] = IF command.properties.shadowEnabled THEN 1 ELSE 0]
        b11 == writeUInt8(b10, command.properties.borderBevel, 30)
        b12 == writeUInt16BE(b11, command.properties.borderOuterWidth, 32)
        b13 == writeUInt16BE(b12, command.properties.borderInnerWidth, 34)
        b14 == writeUInt8(b13, command.properties.borderOuterSoftness, 36)
        b15 == writeUInt8(b14, command.properties.borderInnerSoftness, 37)
        b16 == writeUInt8(b15, command.properties.borderBevelSoftness, 38)
        b17 == writeUInt8(b16, command.properties.borderBevelPosition, 39)
        b18 == writeUInt8(b17, command.properties.borderOpacity, 40)
        b19 == writeUInt16BE(b18, command.properties.borderHue, 42)
        b20 == writeUInt16BE(b19, command.properties.borderSaturation, 44)
        b21 == writeUInt16BE(b20, command.properties.borderLuma, 46)
        b22 == writeUInt16BE(b21, command.properties.lightSourceDirection, 48)
        b23 == writeUInt8(b22, command.properties.lightSourceAltitude, 50)
        b24 == [b23 EXCEPT ![51] = IF command.properties.maskEnabled THEN 1 ELSE 0]
        b25 == writeUInt16BE(b24, command.properties.maskTop, 52)
        b26 == writeUInt16BE(b25, command.properties.maskBottom, 54)
        b27 == writeUInt16BE(b26, command.properties.maskLeft, 56)
        b28 == writeUInt16BE(b27, command.properties.maskRight, 58)
    IN  writeUInt8(b28, command.properties.rate, 61)

\* MixEffectKeyDVECommand.serialize
serialize(command) ==
    LET b0  == alloc(64)
        b1  == writeUInt32BE(b0, command.flag, 0)
        b2  == writeUInt8(b1, command.mixEffect, 4)
        b3  == writeUInt8(b2, command.upstreamKeyerId, 5)
        b4  == writeUInt32BE(b3, command.properties.sizeX, 8)
        b5  == writeUInt32BE(b4, command.properties.sizeY, 12)
        b6  == writeInt32BE(b5, command.properties.positionX, 16)
        b7  == writeInt32BE(b6, command.properties.positionY, 20)
        b8  == writeInt32BE(b7, command.properties.rotation, 24)
        b9  == [b8 EXCEPT ![28] = IF command.properties.borderEnabled THEN 1 ELSE 0]
        b10 == [b9 EXCEPT ![29] = IF command.properties.shadowEnabled THEN 1 ELSE 0]
        b11 == writeUInt8(b10, command.properties.borderBevel, 30)
        b12 == writeUInt16BE(b11, command.properties.borderOuterWidth, 32)
        b13 == writeUInt16BE(b12, command.properties.borderInnerWidth, 34)
        b14 == writeUInt8(b13, command.properties.borderOuterSoftness, 36)
        b15 == writeUInt8(b14, command.properties.borderInnerSoftness, 37)
        b16 == writeUInt8(b15, command.properties.borderBevelSoftness, 38)
        b17 == writeUInt8(b16, command.properties.borderBevelPosition, 39)
        b18 == writeUInt8(b17, command.properties.borderOpacity, 40)
        b19 == writeUInt16BE(b18, command.properties.borderHue, 42)
        b20 == writeUInt16BE(b19, command.properties.borderSaturation, 44)
        b21 == writeUInt16BE(b20, command.properties.borderLuma, 46)
        b22 == writeUInt16BE(b21, command.properties.lightSourceDirection, 48)
        b23 == writeUInt8(b22, command.properties.lightSourceAltitude, 50)
        b24 == [b23 EXCEPT ![51] = IF command.properties.maskEnabled THEN 1 ELSE 0]
        b25 == writeUInt16BE(b24, command.properties.maskTop, 52)
        b26 == writeUInt16BE(b25, command.properties.maskBottom, 54)
        b27 == writeUInt16BE(b26, command.properties.maskLeft, 56)
        b28 == writeUInt16BE(b27, command.properties.maskRight, 58)
    IN  writeUInt8(b28, command.properties.rate, 60)

\* MixEffectKeyDVEUpdateCommand.deserialize with the rate taken as read
deserialize_RateAsRead(rawCommand) ==
    [rawName         |-> "KeDV",
     mixEffect       |-> parseNumberBetween(rawCommand[0], 0, 3),
     upstreamKeyerId |-> parseNumberBetween(rawCommand[1], 0, 3),
     properties      |->
        [sizeX |-> parseNumberBetweenUInt32(readUInt32BE(rawCommand, 4),
                                            UInt32(0, 0), UInt32(65535, 65535)),
         sizeY |-> parseNumberBetweenUInt32(readUInt32BE(rawCommand, 8),
                                            UInt32(0, 0), UInt32(65535, 65535)),
         positionX |-> parseNumberBetween(readInt32BE(rawCommand, 12),
                                          -1000 * 1000, 1000 * 1000),
         positionY |-> parseNumberBetween(readInt32BE(rawCommand, 16),
                                          -1000 * 1000, 1000 * 1000),
         rotation  |-> parseNumberBetween(readInt32BE(rawCommand, 20), -332230, 332230),
         borderEnabled |-> rawCommand[24] = 1,
         shadowEnabled |-> rawCommand[25] = 1,
         borderBevel   |-> parseEnum(readUInt8(rawCommand, 26), BorderBevel),
         borderOuterWidth |-> parseNumberBetween(readUInt16BE(rawCommand, 28), 0, 1600),
         borderInnerWidth |-> parseNumberBetween(readUInt16BE(rawCommand, 30), 0, 1600),
         borderOuterSoftness |-> parseNumberBetween(readInt8(rawCommand, 32), 0, 100),
         borderInnerSoftness |-> parseNumberBetween(readInt8(rawCommand, 33), 0, 100),
         borderBevelSoftness |-> parseNumberBetween(readInt8(rawCommand, 34), 0, 100),
         borderBevelPosition |-> parseNumberBetween(readInt8(rawCommand, 35), 0, 100),
         borderOpacity    |-> parseNumberBetween(readInt8(rawCommand, 36), 0, 100),
         borderHue        |-> parseNumberBetween(readUInt16BE(rawCommand, 38), 0, 3600),
         borderSaturation |-> parseNumberBetween(readUInt16BE(rawCommand, 40), 0, 1000),
         borderLuma       |-> parseNumberBetween(readUInt16BE(rawCommand, 42), 0, 1000),
         lightSourceDirection |->
             parseNumberBetween(readUInt16BE(rawCommand, 44), 0, 3599),
         lightSourceAltitude  |-> parseNumberBetween(readUInt8(rawCommand, 46), 0, 100),
         maskEnabled |-> rawCommand[47] = 1,
         maskTop     |-> parseNumberBetween(readUInt16BE(rawCommand, 48), 0, 38000),
         maskBottom  |-> parseNumberBetween(readUInt16BE(rawCommand, 50), 0, 38000),
         maskLeft    |-> parseNumberBetween(readUInt16BE(rawCommand, 52), 0, 52000),
         maskRight   |-> parseNumberBetween(readUInt16BE(rawCommand, 54), 0, 52000),
         rate        |-> readUInt8(rawCommand, 56)]]

\* MixEffectKeyDVEUpdateCommand.deserialize
deserialize(rawCommand) ==
    [rawName         |-> "KeDV",
     mixEffect       |-> parseNumberBetween(rawCommand[0], 0, 3),
     upstreamKeyerId |-> parseNumberBetween(rawCommand[1], 0, 3),
     properties      |->
        [sizeX |-> parseNumberBetweenUInt32(readUInt32BE(rawCommand, 4),
                                            UInt32(0, 0), UInt32(65535, 65535)),
         sizeY |-> parseNumberBetweenUInt32(readUInt32BE(rawCommand, 8),
                                            UInt32(0, 0), UInt32(65535, 65535)),
         positionX |-> parseNumberBetween(readInt32BE(rawCommand, 12),
                                          -1000 * 1000, 1000 * 1000),
         positionY |-> parseNumberBetween(readInt32BE(rawCommand, 16),
                                          -1000 * 1000, 1000 * 1000),
         rotation  |-> parseNumberBetween(readInt32BE(rawCommand, 20), -332230, 332230),
         borderEnabled |-> rawCommand[24] = 1,
         shadowEnabled |-> rawCommand[25] = 1,
         borderBevel   |-> parseEnum(readUInt8(rawCommand, 26), BorderBevel),
         borderOuterWidth |-> parseNumberBetween(readUInt16BE(rawCommand, 28), 0, 1600),
         borderInnerWidth |-> parseNumberBetween(readUInt16BE(rawCommand, 30), 0, 1600),
         borderOuterSoftness |-> parseNumberBetween(readInt8(rawCommand, 32), 0, 100),
         borderInnerSoftness |-> parseNumberBetween(readInt8(rawCommand, 33), 0, 100),
         borderBevelSoftness |-> parseNumberBetween(readInt8(rawCommand, 34), 0, 100),
         borderBevelPosition |-> parseNumberBetween(readInt8(rawCommand, 35), 0, 100),
         borderOpacity    |-> parseNumberBetween(readInt8(rawCommand, 36), 0, 100),
         borderHue        |-> parseNumberBetween(readUInt16BE(rawCommand, 38), 0, 3600),
         borderSaturation |-> parseNumberBetween(readUInt16BE(rawCommand, 40), 0, 1000),
         borderLuma       |-> parseNumberBetween(readUInt16BE(rawCommand, 42), 0, 1000),
         lightSourceDirection |->
             parseNumberBetween(readUInt16BE(rawCommand, 44), 0, 3599),
         lightSourceAltitude  |-> parseNumberBetween(readUInt8(rawCommand, 46), 0, 100),
         maskEnabled |-> rawCommand[47] = 1,
         maskTop     |-> parseNumberBetween(readUInt16BE(rawCommand, 48), 0, 38000),
         maskBottom  |-> parseNumberBetween(readUInt16BE(rawCommand, 50), 0, 38000),
         maskLeft    |-> parseNumberBetween(readUInt16BE(rawCommand, 52), 0, 52000),
         maskRight   |-> parseNumberBetween(readUInt16BE(rawCommand, 54), 0, 52000),
         rate        |-> parseNumberBetween(readUInt8(rawCommand, 56), 0, 250)]]

\* the payload of a serialized CKDV command after its 4-byte mask flag: the
\* layout of the KeDV notifier
AfterFlag(buffer) == [i \in 0 .. 59 |-> buffer[i + 4]]

\* DVE settings to encode: one record in the middle of every range, and the
\* records that differ from it in one field, set to a bound of its range
MidDVE ==
    [sizeX |-> UInt32(1, 1000), sizeY |-> UInt32(2, 2000),
     positionX |-> 3000, positionY |-> -4000, rotation |-> 5000,
     borderEnabled |-> TRUE, shadowEnabled |-> TRUE, borderBevel |-> 1,
     borderOuterWidth |-> 600, borderInnerWidth |-> 700,
     borderOuterSoftness |-> 8, borderInnerSoftness |-> 9,
     borderBevelSoftness |-> 10, borderBevelPosition |-> 11,
     borderOpacity |-> 12, borderHue |-> 1300, borderSaturation |-> 140,
     borderLuma |-> 150, lightSourceDirection |-> 1600,
     lightSourceAltitude |-> 17, maskEnabled |-> TRUE, maskTop |-> 1800,
     maskBottom |-> 1900, maskLeft |-> 2000, maskRight |-> 2100, rate |-> 22]

RangeEnds ==
    [sizeX |-> {UInt32(0, 0), UInt32(32768, 0), UInt32(65535, 65535)},
     sizeY |-> {UInt32(0, 0), UInt32(32768, 0), UInt32(65535, 65535)},
     positionX |-> {-1000000, 1000000}, positionY |-> {-1000000, 1000000},
     rotation |-> {-332230, 332230},
     borderEnabled |-> {FALSE}, shadowEnabled |-> {FALSE},
     borderBevel |-> BorderBevel,
     borderOuterWidth |-> {0, 1600}, borderInnerWidth |-> {0, 1600},
     borderOuterSoftness |-> {0, 100}, borderInnerSoftness |-> {0, 100},
     borderBevelSoftness |-> {0, 100}, borderBevelPosition |-> {0, 100},
     borderOpacity |-> {0, 100}, borderHue |-> {0, 3600},
     borderSaturation |-> {0, 1000}, borderLuma |-> {0, 1000},
     lightSourceDirection |-> {0, 3599}, lightSourceAltitude |-> {0, 100},
     maskEnabled |-> {FALSE}, maskTop |-> {0, 38000}, maskBottom |-> {0, 38000},
     maskLeft |-> {0, 52000}, maskRight |-> {0, 52000}, rate |-> {0, 250}]

EncodedDVESettings ==
    {MidDVE} \cup {[MidDVE EXCEPT ![f] = v] : <<f, v>> \in
                      UNION {{<<g, w>> : w \in RangeEnds[g]} : g \in DOMAIN RangeEnds}}

\* the CKDV commands handed to the encoder, with every field's mask flag set
CKDVCommands ==
    {[rawName |-> "CKDV", flag |-> UInt32(1023, 65535), mixEffect |-> m,
      upstreamKeyerId |-> k, properties |-> p] :
         m \in 0 .. 3, k \in 0 .. 3, p \in EncodedDVESettings}

\* KeDV payloads as the device may send them: a well-formed payload in which
\* two neighbouring bytes hold anything (the byte of the borderBevel enum
\* keeps a value of the enum)
ByteSamples == {0, 1, 100, 101, 127, 128, 254, 255}
MidPayload ==
    AfterFlag(serialize([rawName |-> "CKDV", flag |-> UInt32(1023, 65535),
                         mixEffect |-> 1, upstreamKeyerId |-> 2,
                         properties |-> MidDVE]))
ReceivedPayloads ==
    {[MidPayload EXCEPT ![i] = b1, ![i + 1] = b2] :
        i \in (0 .. 58) \ {25, 26}, b1 \in ByteSamples, b2 \in ByteSamples}

\* the inputs of the codec: a command to encode, or a payload received
CodecInputs ==
    {[step |-> "built", origin |-> "caller", command |-> c,
      buffer |-> Undefined, rawCommand |-> Undefined, decoded |-> Undefined] :
        c \in CKDVCommands}
    \cup
    {[step |-> "received", origin |-> "device", command |-> Undefined,
      buffer |-> Undefined, rawCommand |-> r, decoded |-> Undefined] :
        r \in ReceivedPayloads}

\* everything but the codec
AtemUnchanged ==
    UNCHANGED <<localPacketId, sentQueue, continuation, promises, invoked,
                socketState, emitted, state, thrown, opCount, lastCall,
                transfers>>

\* command.serialize()
Serialize ==
    /\ codec.step = "built"
    /\ codec' = [codec EXCEPT !.step = "serialized",
                              !.buffer = serialize(codec.command)]
    /\ AtemUnchanged

\* the serialized payload comes back as the payload of a KeDV notifier
Loopback ==
    /\ codec.step = "serialized"
    /\ codec' = [codec EXCEPT !.step = "received",
                              !.rawCommand = AfterFlag(codec.buffer)]
    /\ AtemUnchanged

\* command.deserialize(rawCommand)
Deserialize ==
    /\ codec.step = "received"
    /\ codec' = [codec EXCEPT !.step = "deserialized",
                              !.decoded = deserialize(codec.rawCommand)]
    /\ AtemUnchanged

(* ------------------------------ session ------------------------------- *)

\* Atem.connect: return this.socket.connect(address, port)
connect ==
    /\ opCount < MaxOps
    /\ opCount' = opCount + 1
    /\ socketState \in {"Idle", "Disconnected"}
    /\ socketState' = "Handshaking"
    /\ emitted' = <<>>
    /\ thrown' = FALSE
    /\ UNCHANGED <<localPacketId, sentQueue, continuation, promises, invoked, state>>
    /\ UNCHANGED <<lastCall, transfers, codec>>

\* socket.on('connect', () => this.emit('connected'))
SocketConnect ==
    /\ socketState = "Handshaking"
    /\ socketState' = "Established"
    /\ emitted' = <<Event("connected", Undefined)>>
    /\ thrown' = FALSE
    /\ UNCHANGED <<localPacketId, sentQueue, continuation, promises, invoked,
                   state, opCount>>
    /\ UNCHANGED <<lastCall, transfers, codec>>

\* Atem.disconnect: this.socket.disconnect().then(() => resolve()).catch(reject)
disconnect ==
    /\ opCount < MaxOps
    /\ opCount' = opCount + 1
    /\ socketState \in {"Handshaking", "Established"}
    /\ socketState' = "Disconnected"
    /\ emitted' = <<>>
    /\ thrown' = FALSE
    /\ UNCHANGED <<localPacketId, sentQueue, continuation, promises, invoked, state>>
    /\ UNCHANGED <<lastCall, transfers, codec>>

\* socket.on('disconnect', () => this.emit('disconnected'))
SocketDisconnect ==
    /\ socketState = "Established"
    /\ socketState' = "Disconnected"
    /\ emitted' = <<Event("disconnected", Undefined)>>
    /\ thrown' = FALSE
    /\ UNCHANGED <<localPacketId, sentQueue, continuation, promises, invoked,
                   state, opCount>>
    /\ UNCHANGED <<lastCall, transfers, codec>>

\* socket.on('error', (e) => this.emit('error', e))
SocketError ==
    /\ socketState \in {"Handshaking", "Established"}
    /\ emitted' = <<Event("error", Undefined)>>
    /\ thrown' = FALSE
    /\ UNCHANGED <<localPacketId, sentQueue, continuation, promises, invoked,
                   socketState, state, opCount>>
    /\ UNCHANGED <<lastCall, transfers, codec>>

(* -------------------------- received commands ------------------------- *)

\* socket.on('receivedStateChange', command => { emit('receivedCommand', command);
\*                                                this._mutateState(command) })
\* (the session engine delivers received commands while Established)
ReceivedStateChange(command) ==
    /\ socketState = "Established"
    /\ opCount < MaxOps
    /\ opCount' = opCount + 1
    /\ LET done == _mutateState(command, state)
       IN  /\ state' = done.state
           /\ emitted' = <<Event("receivedCommand", command)>> \o done.emitted
           /\ thrown' = done.thrown
           /\ transfers' = IF ~done.thrown /\ command \in DataTransferCommands
                           THEN handleCommand(command, transfers)
                           ELSE transfers
    /\ UNCHANGED <<localPacketId, sentQueue, continuation, promises, invoked,
                   socketState, lastCall, codec>>

(* --------------------------- specification ---------------------------- *)

Constructed ==
    /\ localPacketId = 0
    /\ sentQueue = [t \in TrackingIds |-> NoCommand]
    /\ continuation = [c \in Objects |-> [resolve |-> NoPromise, reject |-> NoPromise]]
    /\ promises = <<>>
    /\ invoked = [t \in TrackingIds |-> 0]
    /\ socketState = "Idle"
    /\ emitted = <<>>
    /\ state = [video |-> [ME |-> [m \in MixEffects |-> Undefined]],
                info  |-> [apiVersion |-> NoVersion]]
    /\ thrown = FALSE
    /\ opCount = 0
    /\ lastCall = Undefined
    /\ transfers = NoTransfers

Init ==
    /\ Constructed
    /\ codec = Undefined

Next ==
    \/ \E command \in Commands : SendOwnCommand(command)
    \/ \E p \in 1 .. MaxSends : SendCommandFailed(p)
    \/ \E trackingId \in TrackingIds : CommandAcknowledged(trackingId)
    \/ \E trackingId \in TrackingIds : CommandTimeout(trackingId)
    \/ connect
    \/ SocketConnect
    \/ disconnect
    \/ SocketDisconnect
    \/ SocketError
    \/ \E command \in ReceivedCommands : ReceivedStateChange(command)

Spec == Init /\ [][Next]_vars

\* The public setters, with the version the device reports at connect time.
ApiNext ==
    \/ \E setter \in DOMAIN MixEffectSetters :
          \E call \in MixEffectCalls(setter) : MixEffectSetter(call)
    \/ \E setter \in DOMAIN UpstreamKeyerSetters :
          \E call \in UpstreamKeyerCalls(setter) : UpstreamKeyerSetter(call)
    \/ \E call \in SuperSourceCalls("setSuperSourceProperties") :
          setSuperSourceProperties(call)
    \/ \E call \in SuperSourceCalls("setSuperSourceBorder") :
          setSuperSourceBorder(call)
    \/ \E command \in VersionCommands : ReceivedStateChange(command)
    \/ connect
    \/ SocketConnect
    \/ \E trackingId \in TrackingIds : CommandAcknowledged(trackingId)

ApiSpec == Init /\ [][ApiNext]_vars

\* Uploads through the data transfer manager, with the session around them.
TransferNext ==
    \/ uploadStill
    \/ uploadClip
    \/ uploadAudio
    \/ TransferStart
    \/ TransferCommandFailed
    \/ \E p \in 1 .. MaxSends : SendCommandFailed(p)
    \/ \E trackingId \in TrackingIds : CommandTimeout(trackingId)
    \/ \E command \in DataTransferCommands : ReceivedStateChange(command)
    \/ connect
    \/ SocketConnect
    \/ disconnect

TransferSpec == Init /\ [][TransferNext]_vars

\* The KeDV / CKDV codec on its inputs.
CodecInit ==
    /\ Constructed
    /\ codec \in CodecInputs

CodecNext ==
    \/ Serialize
    \/ Loopback
    \/ Deserialize

CodecSpec == CodecInit /\ [][CodecNext]_vars

\* The socket eventually emits an ack or a timeout for every tracking
\* identifier that is waiting in the sent queue.
LiveSpec ==
    /\ Spec
    /\ \A t \in TrackingIds :
          WF_vars(sentQueue[t] # NoCommand
                    /\ (CommandAcknowledged(t) \/ CommandTimeout(t)))

(* ------------------------------ properties ---------------------------- *)

Issued(trackingId) == trackingId \in 1 .. localPacketId

Pending(trackingId) == sentQueue[trackingId] # NoCommand

AckOrTimeout(trackingId) ==
    CommandAcknowledged(trackingId) \/ CommandTimeout(trackingId)

\* the promise returned by the sendCommand call that was assigned trackingId
PromisesOf(trackingId) ==
    {p \in 1 .. Len(promises) : promises[p].trackingId = trackingId}

\* C1: each tracking identifier is settled at most once. The first ack or
\* timeout for an issued identifier invokes a continuation and removes the
\* identifier from the sent queue; an ack or timeout for an identifier that
\* was never issued or is already settled invokes nothing and leaves the
\* sent queue (and every promise) unchanged.
C1_SettledAtMostOnce ==
    /\ [](\A t \in TrackingIds : invoked[t] <= 1)
    /\ [][\A t \in TrackingIds :
            AckOrTimeout(t) =>
                IF Issued(t) /\ invoked[t] = 0
                THEN /\ invoked'[t] = 1
                     /\ ~Pending(t)'
                     /\ \A u \in TrackingIds \ {t} :
                            /\ invoked'[u] = invoked[u]
                            /\ sentQueue'[u] = sentQueue[u]
                ELSE UNCHANGED <<sentQueue, invoked, promises>>]_vars

\* C1 witness: one identifier settled and out of the queue while a later
\* one is still pending
C1_Witness ==
    \E t, u \in TrackingIds :
        /\ t # u
        /\ invoked[t] = 1 /\ ~Pending(t)
        /\ invoked[u] = 0 /\ Pending(u)

\* C2: an ack for t resolves, and a timeout for t rejects, the promise of
\* the sendCommand call that was assigned t, and settles no other promise.
C2_SettlesOwnPromiseOnly ==
    [][\A t \in TrackingIds :
          /\ (CommandAcknowledged(t) /\ Pending(t)) =>
                \A p \in 1 .. Len(promises) :
                    IF p \in PromisesOf(t)
                    THEN promises[p].status = "pending"
                            => promises'[p].status = "resolved"
                    ELSE promises'[p] = promises[p]
          /\ (CommandTimeout(t) /\ Pending(t)) =>
                \A p \in 1 .. Len(promises) :
                    IF p \in PromisesOf(t)
                    THEN promises[p].status = "pending"
                            => promises'[p].status = "rejected"
                    ELSE promises'[p] = promises[p]]_vars

\* C3: when the session disconnects, every pending promise is rejected with
\* a connection-lost error and the sent queue is empty afterwards.
C3_DisconnectRejectsPending ==
    [][(socketState # "Disconnected" /\ socketState' = "Disconnected") =>
          /\ \A t \in TrackingIds : ~Pending(t)'
          /\ \A p \in 1 .. Len(promises) :
                promises[p].status = "pending" =>
                    /\ promises'[p].status = "rejected"
                    /\ promises'[p].value = "connectionLost"]_vars

\* C4: every promise sendCommand returns is eventually settled, given that
\* the socket eventually emits an ack or a timeout for every identifier it
\* was handed.
C4_EventuallySettled ==
    \A p \in 1 .. MaxSends :
        (Len(promises) >= p)
            ~> (Len(promises) >= p /\ promises[p].status # "pending")

\* C5: the tracking identifiers of successive sendCommand calls are strictly
\* increasing and are taken in the call itself, in every session state; no
\* two calls share an identifier, and a sendCommand never overwrites an
\* entry of the sent queue that is still pending.
C5_MonotonicTrackingIds ==
    /\ [](\A p, q \in 1 .. Len(promises) :
            p < q => promises[p].trackingId < promises[q].trackingId)
    /\ [](\A t \in TrackingIds :
            Pending(t) => /\ Issued(t)
                          /\ PromisesOf(t) # {}
                          /\ \A p \in PromisesOf(t) :
                                promises[p].command = sentQueue[t])
    /\ [][\A command \in Commands :
            sendCommand(command) =>
                /\ Len(promises') = Len(promises) + 1
                /\ LET id == promises'[Len(promises')].trackingId
                   IN  /\ ~Pending(id)
                       /\ sentQueue' = [sentQueue EXCEPT ![id] = command]]_vars

\* C5 witness: two commands sent before any session existed, both pending
\* under different identifiers
C5_Witness ==
    /\ socketState = "Idle"
    /\ Len(promises) >= 2
    /\ Pending(promises[1].trackingId) /\ Pending(promises[2].trackingId)
    /\ promises[1].trackingId < promises[2].trackingId

IsSessionEvent(e) == e.name \in {"disconnected", "error"}

\* C6: a CommandTimeout for t affects only t: the promise of t is rejected,
\* every other promise and every other entry of the sent queue is left as
\* it was, continuations are untouched, neither 'disconnected' nor 'error'
\* is emitted and the session state does not change.
C6_TimeoutIsolated ==
    [][\A t \in TrackingIds :
          (CommandTimeout(t) /\ Pending(t)) =>
              /\ \A p \in 1 .. Len(promises) :
                    IF p \in PromisesOf(t)
                    THEN promises'[p].status = "rejected"
                    ELSE promises'[p] = promises[p]
              /\ \A u \in TrackingIds \ {t} : sentQueue'[u] = sentQueue[u]
              /\ continuation' = continuation
              /\ \A i \in 1 .. Len(emitted') : ~IsSessionEvent(emitted'[i])
              /\ socketState' = socketState]_vars

\* C7: the state tree changes only when a received command is applied
\* ('receivedStateChange'); sendCommand, acks, timeouts, send failures,
\* connect, disconnect and the socket's session events leave it unchanged.
C7_TreeChangesOnlyOnReceive ==
    [][state' # state =>
          \E command \in ReceivedCommands : ReceivedStateChange(command)]_vars

\* C7 witness: a non-empty tree, with a command sent and acknowledged
C7_Witness ==
    /\ \E m \in MixEffects : state.video.ME[m] # Undefined
    /\ \E p \in 1 .. Len(promises) : promises[p].status = "resolved"

ReceivedEvents(command) ==
    <<Event("receivedCommand", command)>> \o _mutateState(command, state).emitted

\* the last step handled the received command `command`
JustReceived(command) ==
    /\ emitted # <<>>
    /\ emitted[1] = Event("receivedCommand", command)

IsPath(value) == value.type = "string" /\ Len(value.value) > 0

\* C9: every application of a notifier command that returns reports the
\* path(s) of what it changed: one 'stateChanged' event per returned path,
\* in the returned order, at least one when the tree changed, and none that
\* carries an undefined or empty path.
C9_ChangedPathsReported ==
    [][\A command \in KeDVCommands \cup KeBPCommands :
          (ReceivedStateChange(command) /\ ~thrown') =>
              LET returned == ChangePaths(applyToState(command, state))
              IN  /\ Len(emitted') = 1 + Len(returned)
                  /\ \A i \in 1 .. Len(returned) :
                        /\ emitted'[i + 1] = Event("stateChanged", returned[i])
                        /\ IsPath(returned[i])
                        /\ \A j \in 1 .. Len(returned) :
                              returned[j] = returned[i] => j = i
                  /\ state' # state => Len(returned) > 0]_vars

\* the fields of a command as they stand in the tree after it was applied
Applied(command, st) ==
    LET me == st.video.ME[command.mixEffect]
    IN  /\ me # Undefined
        /\ IF command.rawName = "KeDV"
           THEN LET keyer == me.upstreamKeyers[command.upstreamKeyerId]
                IN  /\ keyer # Undefined
                    /\ "dveSettings" \in DOMAIN keyer
                    /\ keyer.dveSettings = command.properties
           ELSE LET keyer == me.upstreamKeyers[command.properties.upstreamKeyerId]
                IN  /\ keyer # Undefined
                    /\ \A f \in DOMAIN command.properties :
                          /\ f \in DOMAIN keyer
                          /\ keyer[f] = command.properties[f]

\* C10: applying a notifier command (KeDV, KeBP) that addresses a mix effect
\* or an upstream keyer not seen before creates the missing nodes and
\* applies the command's fields; the application never fails.
C10_LazyNodeCreation ==
    [][\A command \in KeDVCommands \cup KeBPCommands :
          ReceivedStateChange(command) =>
              /\ ~thrown'
              /\ Applied(command, state')]_vars

KeyerAt(st, me, keyer) ==
    IF st.video.ME[me] = Undefined
    THEN Undefined
    ELSE st.video.ME[me].upstreamKeyers[keyer]

\* C16: applying a KeDV notifier for mix effect m and keyer k sets the
\* dveSettings of that keyer to the command's properties and reports the one
\* path video.ME.m.upstreamKeyers.k.dveSettings; every other keyer, every
\* other mix effect and every other field of keyer k keep their values.
C16_KeDVChangesOnlyItsKeyer ==
    [][\A command \in KeDVCommands :
          ReceivedStateChange(command) =>
              LET m == command.mixEffect
                  k == command.upstreamKeyerId
              IN  /\ KeyerAt(state', m, k).dveSettings = command.properties
                  /\ emitted' = <<Event("receivedCommand", command),
                                  Event("stateChanged",
                                        StringValue(Path(m, k, "dveSettings")))>>
                  /\ \A m2 \in MixEffects \ {m} :
                        state'.video.ME[m2] = state.video.ME[m2]
                  /\ \A k2 \in Keyers \ {k} :
                        KeyerAt(state', m, k2) = KeyerAt(state, m, k2)
                  /\ KeyerAt(state, m, k) # Undefined =>
                        \A f \in DOMAIN KeyerAt(state, m, k) \ {"dveSettings"} :
                            KeyerAt(state', m, k)[f] = KeyerAt(state, m, k)[f]
                  /\ DOMAIN state' = DOMAIN state
                  /\ DOMAIN state'.video = DOMAIN state.video]_vars

\* C16 witness: two keyers of one mix effect hold different dveSettings
C16_Witness ==
    \E m \in MixEffects : \E k, k2 \in Keyers :
        /\ k # k2
        /\ KeyerAt(state, m, k) # Undefined
        /\ KeyerAt(state, m, k2) # Undefined
        /\ "dveSettings" \in DOMAIN KeyerAt(state, m, k)
        /\ "dveSettings" \in DOMAIN KeyerAt(state, m, k2)
        /\ KeyerAt(state, m, k).dveSettings # KeyerAt(state, m, k2).dveSettings

\* C17: the sent queue holds exactly the commands whose promise is still
\* pending: a settled promise (ack, timeout, failed hand-over to the socket)
\* has no entry left, and a pending one has its entry.
C17_QueueHoldsExactlyPending ==
    \A p \in 1 .. Len(promises) :
        promises[p].status = "pending" <=> Pending(promises[p].trackingId)

\* a call of one of the two SuperSource setters
SuperSourceCall(call) ==
    \/ call.setter = "setSuperSourceProperties" /\ setSuperSourceProperties(call)
    \/ call.setter = "setSuperSourceBorder" /\ setSuperSourceBorder(call)

\* C14: setSuperSourceProperties and setSuperSourceBorder build the
\* version-8 variant with the given ssrcId when the mirrored apiVersion is
\* at least V8_0 at the time of the call, and the legacy
\* SuperSourcePropertiesCommand otherwise; each call sends exactly one
\* command, the one it built; a version reported afterwards leaves the
\* command of an earlier call as it was.
C14_SuperSourceVariantByVersion ==
    [][/\ \A setter \in {"setSuperSourceProperties", "setSuperSourceBorder"} :
            \A call \in SuperSourceCalls(setter) :
               SuperSourceCall(call) =>
                  /\ lastCall'.call = call
                  /\ IF state.info.apiVersion \in {ProtocolVersion.V8_0,
                                                   ProtocolVersion.V8_0_1}
                     THEN /\ lastCall'.command.class =
                               (IF setter = "setSuperSourceProperties"
                                THEN "SuperSourcePropertiesV8Command"
                                ELSE "SuperSourceBorderCommand")
                          /\ "ssrcId" \in DOMAIN call =>
                               lastCall'.command.ssrcId = call.ssrcId
                     ELSE lastCall'.command =
                               [class |-> "SuperSourcePropertiesCommand"]
                  /\ localPacketId' = localPacketId + 1
                  /\ Len(promises') = Len(promises) + 1
                  /\ sentQueue'[localPacketId'] = lastCall'.object
                  /\ \A t \in TrackingIds \ {localPacketId'} :
                        sentQueue'[t] = sentQueue[t]
                  /\ \A t \in TrackingIds :
                        sentQueue[t] # lastCall'.object
                  /\ state' = state
       /\ \A command \in VersionCommands :
            ReceivedStateChange(command) =>
               /\ lastCall' = lastCall
               /\ sentQueue' = sentQueue
               /\ promises' = promises
               /\ state'.info.apiVersion = command.apiVersion]_vars

\* C14 witness: after the device reported version 8.0 a SuperSource setter
\* sent the version-8 variant for SuperSource box 1
C14_Witness ==
    /\ lastCall.type = "call"
    /\ lastCall.call.setter \in {"setSuperSourceProperties", "setSuperSourceBorder"}
    /\ state.info.apiVersion = ProtocolVersion.V8_0
    /\ "ssrcId" \in DOMAIN lastCall.command
    /\ lastCall.command.ssrcId = 1
    /\ \E t \in TrackingIds : sentQueue[t] = lastCall.object

\* C18: every setter that takes an optional mix effect index builds a
\* command whose mixEffect is 0 when the index is left out.
C18_OmittedMixEffectIsZero ==
    (/\ lastCall.type = "call"
     /\ "mixEffect" \in DOMAIN lastCall.command
     /\ "me" \notin DOMAIN lastCall.call)
        => lastCall.command.mixEffect = 0

\* C13: disconnect() called while one upload is active and further uploads
\* are queued fails the active transfer and every queued one with a
\* connection-lost error and leaves the transfer queue empty, so that the
\* data transfer manager has no transfer command left to send.
C13_DisconnectCancelsTransfers ==
    [][(/\ disconnect
        /\ socketState = "Established"
        /\ Len(transfers.queue) > 1
        /\ Head(transfers.queue).state # "Queued")
          => /\ transfers'.queue = <<>>
             /\ \A i \in 1 .. Len(transfers.queue) :
                   transfers'.outcome[transfers.queue[i].id] = "connection-lost"]_vars

\* the range the decoder declares for every numeric field of the settings
\* that is narrower than its wire type
DeclaredRange ==
    [positionX |-> <<-1000000, 1000000>>, positionY |-> <<-1000000, 1000000>>,
     rotation |-> <<-332230, 332230>>,
     borderOuterWidth |-> <<0, 1600>>, borderInnerWidth |-> <<0, 1600>>,
     borderOuterSoftness |-> <<0, 100>>, borderInnerSoftness |-> <<0, 100>>,
     borderBevelSoftness |-> <<0, 100>>, borderBevelPosition |-> <<0, 100>>,
     borderOpacity |-> <<0, 100>>, borderHue |-> <<0, 3600>>,
     borderSaturation |-> <<0, 1000>>, borderLuma |-> <<0, 1000>>,
     lightSourceDirection |-> <<0, 3599>>, lightSourceAltitude |-> <<0, 100>>,
     maskTop |-> <<0, 38000>>, maskBottom |-> <<0, 38000>>,
     maskLeft |-> <<0, 52000>>, maskRight |-> <<0, 52000>>, rate |-> <<0, 250>>]

\* the bytes of the KeDV payload that hold each field of the settings
PayloadBytes ==
    [sizeX |-> 4 .. 7, sizeY |-> 8 .. 11, positionX |-> 12 .. 15,
     positionY |-> 16 .. 19, rotation |-> 20 .. 23, borderEnabled |-> {24},
     shadowEnabled |-> {25}, borderBevel |-> {26},
     borderOuterWidth |-> 28 .. 29, borderInnerWidth |-> 30 .. 31,
     borderOuterSoftness |-> {32}, borderInnerSoftness |-> {33},
     borderBevelSoftness |-> {34}, borderBevelPosition |-> {35},
     borderOpacity |-> {36}, borderHue |-> 38 .. 39,
     borderSaturation |-> 40 .. 41, borderLuma |-> 42 .. 43,
     lightSourceDirection |-> 44 .. 45, lightSourceAltitude |-> {46},
     maskEnabled |-> {47}, maskTop |-> 48 .. 49, maskBottom |-> 50 .. 51,
     maskLeft |-> 52 .. 53, maskRight |-> 54 .. 55, rate |-> {56}]

C12_DecodeEncodeRoundTrip ==
    (codec.step = "deserialized" /\ codec.origin = "caller") =>
        /\ codec.decoded.mixEffect = codec.command.mixEffect
        /\ codec.decoded.upstreamKeyerId = codec.command.upstreamKeyerId
        /\ DOMAIN codec.decoded.properties = DOMAIN codec.command.properties
        /\ \A f \in DOMAIN codec.command.properties :
              codec.decoded.properties[f] = codec.command.properties[f]

\* C12 witness: a command for mix effect 3 with maskTop 38000 went through
\* the encoder and the decoder
C12_Witness ==
    /\ codec.step = "deserialized"
    /\ codec.origin = "caller"
    /\ codec.command.mixEffect = 3
    /\ codec.command.properties.maskTop = 38000
    /\ codec.decoded.properties.maskTop = 38000

====
